---- MODULE Spec2Model ----
(***************************************************************************)
(* A model of reskill (kanyun-ai-infra/skpm): the cache manager, the       *)
(* registry resolver and the install command.                              *)
(*                                                                         *)
(* Paths are sequences of segments ("a/b" is <<"a", "b">>); a file system  *)
(* is a set of directories and a set of files with their content.          *)
(***************************************************************************)
EXTENDS Integers, Naturals, Sequences, FiniteSets, TLC

VARIABLES
    qA,         \* getSkillCachePath: the first parsed reference
    qB,         \* getSkillCachePath: the second parsed reference
    qVersion,   \* getSkillCachePath: the resolved version of both
    qPaths,     \* <<>> before the call, then <<path of qA, path of qB>>
    fsDirs,     \* the directories of the file system
    fsFiles,    \* the files of the file system: path -> content
    last,       \* the outcome of the last cache operation
    nOps,       \* the number of cache operations so far
    regResult,  \* the outcome of the last RegistryResolver.resolve
    regDirs,    \* what was extracted into the cache, canonical and agent directory
    skillsJson, \* the project manifest: whether it exists, its skills, its defaults
    lock,       \* the lock store: skill name -> lock entry
    agentDirs,  \* skill name -> agent -> what the agent's skills directory holds
    canonical,  \* skill name -> the version in the canonical directory
    remote,     \* the remotes: the latest tag, the repositories that are missing
    unwritable, \* the agents whose skills directory cannot be written
    symlinkFails, \* the agents in whose skills directory no symlink can be created
    pc,         \* where the install command is: "idle", "loop" or "done"
    cmd,        \* the command that runs or ran: "none", "install" or "reinstall"
    ctx,        \* the resolved target agents, mode, force and scope of the command
    attempts,   \* the installToAgents calls of the command, in order
    totalInstalled,
    totalFailed,
    defaultsSaved, \* whether the command called updateDefaults
    exitCode,   \* the exit code of the command, -1 while it runs
    prevCall,   \* the installToAgents call before the current one
    nRuns,      \* the number of commands so far
    inFlight,   \* the manifest entries whose installToAgents call has not returned
    upRemote,   \* the remote of the update check: whether it answers, its refs
    upLock,     \* the lock entry the update check reads: ref and commit
    upReport,   \* what the last update reported
    upFetches,  \* the number of fetches the updates made
    dRef,       \* the reference given to SkillManager.install, as tokens
    dSource,    \* the installer chosen for it: "none", "registry", "http", "git"
    gEnv,       \* process.env of the tool: which fail-fast settings it already has
    gRemote,    \* what the remote asks of a Git subprocess
    gLast,      \* the last remote Git subprocess: its kind, settings and outcome
    nCall,      \* the update check: its timeout and how the npm registry answers
    nClock,     \* the seconds since checkForUpdate was called
    nPhase,     \* "idle", "fetching", "reading" (the body) or "returned"
    nTimer,     \* the abort timer: "off", "armed", "cleared" or "fired"
    nResult,    \* what checkForUpdate returned: "none", "null", "current", "update"
    nMessage,   \* whether notifyUpdate logged the update message
    aEnv,       \* process.env.RESKILL_TOKEN, "" when it is not set
    aConfig,    \* ~/.reskillrc: whether it can be read, and its registries
    aReport     \* registry -> what the last login or logout for it reported

pathVars == <<qA, qB, qVersion, qPaths>>

cacheVars == <<fsDirs, fsFiles, last, nOps>>

regVars == <<regResult, regDirs>>

projectVars ==
    <<skillsJson, lock, agentDirs, canonical, remote, unwritable, symlinkFails>>

commandVars ==
    <<pc, cmd, ctx, attempts, totalInstalled, totalFailed, defaultsSaved, exitCode,
      prevCall, nRuns, inFlight>>

batchVars == <<projectVars, commandVars>>

updVars == <<upRemote, upLock, upReport, upFetches>>

refVars == <<dRef, dSource>>

gitVars == <<gEnv, gRemote, gLast>>

notifyVars == <<nCall, nClock, nPhase, nTimer, nResult, nMessage>>

\* the variables of the smaller specifications
authVars == <<aEnv, aConfig, aReport>>

sideVars == <<updVars, refVars, gitVars, notifyVars, authVars>>

vars == <<pathVars, cacheVars, regVars, batchVars, sideVars>>

(***************************************************************************)
(* Bounds                                                                  *)
(***************************************************************************)
\* the longest subPath, in segments
MaxSubPathLen == 2

\* the number of cache operations in one run
MaxOps == 2

(***************************************************************************)
(* node:path                                                               *)
(***************************************************************************)
RECURSIVE Norm(_, _, _)
\* path.normalize on a segment list: "." and empty segments are dropped and
\* ".." removes the segment before it; at the root of an absolute path ".."
\* is dropped, at the start of a relative path it is kept.
Norm(segs, acc, abs) ==
    IF segs = <<>> THEN acc
    ELSE LET h == Head(segs)
             t == Tail(segs)
         IN  IF h = "." \/ h = "" THEN Norm(t, acc, abs)
             ELSE IF h = ".."
                  THEN IF acc # <<>> /\ acc[Len(acc)] # ".."
                       THEN Norm(t, SubSeq(acc, 1, Len(acc) - 1), abs)
                       ELSE IF abs THEN Norm(t, acc, abs)
                            ELSE Norm(t, Append(acc, ".."), abs)
                  ELSE Norm(t, Append(acc, h), abs)

\* path.normalize of a relative path
NormalizeRel(segs) == Norm(segs, <<>>, FALSE)

\* path.join(...parts), the first part being absolute
PathJoin(parts) ==
    LET RECURSIVE Flat(_)
        Flat(ps) == IF ps = <<>> THEN <<>> ELSE Head(ps) \o Flat(Tail(ps))
    IN  Norm(Flat(parts), <<>>, TRUE)

\* path.dirname of a normalized absolute path
Dirname(p) == IF p = <<>> THEN <<>> ELSE SubSeq(p, 1, Len(p) - 1)

\* whether p is q or lies below q
IsPrefix(q, p) == Len(q) <= Len(p) /\ SubSeq(p, 1, Len(q)) = q

(***************************************************************************)
(* CacheManager: paths                                                     *)
(***************************************************************************)
\* this.cacheDir, from getCacheDir(): <home>/.reskill-cache
CacheDir == <<"home", ".reskill-cache">>

\* the segments a subPath is made of
SubPathSegs == {"a", "b", ".", ".."}

RECURSIVE SeqsUpTo(_, _)
SeqsUpTo(S, n) ==
    IF n = 0 THEN {<<>>}
    ELSE LET shorter == SeqsUpTo(S, n - 1)
         IN  shorter \cup {Append(s, x) : s \in shorter, x \in S}

\* parsed.subPath as its segments; <<>> is "no subPath" (undefined or "")
SubPaths == SeqsUpTo(SubPathSegs, MaxSubPathLen)

Repos == {"skills", "tools"}

\* resolved versions; ".." is what `owner/repo@..` parses to
Versions == {"v1", "v2", ".."}

\* ParsedSkillRef (registry, owner, repo, subPath)
ParsedRefs ==
    [registry : {"github"}, owner : {"org"}, repo : Repos, subPath : SubPaths]

\* The cache path without the subPath: the defect the changeset "Fix cache
\* collision for different skills in the same monorepo" removed.
getSkillCachePathNoSubPath(parsed, version) ==
    PathJoin(<<CacheDir, <<parsed.registry>>, <<parsed.owner>>, <<parsed.repo>>,
               <<version>>>>)

\* CacheManager.getSkillCachePath
getSkillCachePath(parsed, version) ==
    LET basePath == PathJoin(<<CacheDir, <<parsed.registry>>, <<parsed.owner>>,
                               <<parsed.repo>>>>)
    IN  IF parsed.subPath # <<>>
        THEN PathJoin(<<basePath, parsed.subPath, <<version>>>>)
        ELSE PathJoin(<<basePath, <<version>>>>)

(***************************************************************************)
(* Specification SpecPath: getSkillCachePath on two references             *)
(***************************************************************************)
NoOp ==
    [op |-> "none", parsed |-> <<>>, version |-> "", ok |-> TRUE, error |-> "",
     before |-> {}, fetched |-> {}, commit |-> ""]

\* no cache operation takes place
CacheIdle ==
    /\ fsDirs = {}
    /\ fsFiles = <<>>
    /\ last = NoOp
    /\ nOps = 0

\* resolve was not called and nothing was extracted
NoResolve ==
    [ref |-> <<>>, ok |-> FALSE, error |-> "none", shortName |-> <<>>, version |-> "",
     tarball |-> "", integrity |-> ""]

RegistryDirs == {"cache", "canonical", "agent"}

NothingExtracted == [tarball |-> "", integrity |-> ""]

RegistryIdle ==
    /\ regResult = NoResolve
    /\ regDirs = [d \in RegistryDirs |-> NothingExtracted]


(***************************************************************************)
(* The project: manifest, lock store, installed skills                      *)
(***************************************************************************)
SkillNames == {"a", "b", "bad"}

Agents == {"cursor", "claude"}

\* a reference of skills.json or of the command line; the version ""
\* stands for a reference that does not parse
Refs ==
    {[name |-> "a", version |-> "v1"], [name |-> "a", version |-> "latest"],
     [name |-> "b", version |-> "v1"], [name |-> "bad", version |-> ""]}

NoLock == [ref |-> <<>>, version |-> ""]

NoDefaults == [targetAgents |-> {}, installMode |-> ""]

NoCall == [ref |-> <<>>, version |-> "", targets |-> {}, allOk |-> FALSE]

NoCtx == [targetAgents |-> {}, mode |-> "", force |-> FALSE, global |-> FALSE]

\* no command ran
CommandIdle ==
    /\ pc = "idle"
    /\ cmd = "none"
    /\ ctx = NoCtx
    /\ attempts = <<>>
    /\ totalInstalled = 0
    /\ totalFailed = 0
    /\ defaultsSaved = FALSE
    /\ exitCode = -1
    /\ prevCall = NoCall
    /\ nRuns = 0
    /\ inFlight = {}

\* a project in which nothing is installed
ProjectEmpty ==
    /\ lock = [n \in SkillNames |-> NoLock]
    /\ agentDirs = [n \in SkillNames |-> [t \in Agents |-> "none"]]
    /\ canonical = [n \in SkillNames |-> ""]

BatchIdle ==
    /\ skillsJson = [exists |-> FALSE, skills |-> <<>>, defaults |-> NoDefaults]
    /\ ProjectEmpty
    /\ remote = [latest |-> "v1", missing |-> {}]
    /\ unwritable = {}
    /\ symlinkFails = {}
    /\ CommandIdle

NoReport ==
    [ref |-> <<>>, locked |-> "", remoteCommit |-> "", action |-> "none", fetched |-> FALSE,
     fetchesBefore |-> 0]

\* no update check ran
UpdateIdle ==
    /\ upRemote = [up |-> TRUE, refs |-> <<>>]
    /\ upLock = [ref |-> <<>>, commit |-> ""]
    /\ upReport = NoReport
    /\ upFetches = 0

\* no reference was given to SkillManager.install
DispatchIdle == dRef = <<>> /\ dSource = "none"

\* the settings of a Git subprocess: StrictHostKeyChecking=accept-new,
\* BatchMode=yes, GIT_TERMINAL_PROMPT=0
NoGitSettings == [acceptNew |-> FALSE, batchMode |-> FALSE, noPrompt |-> FALSE]

NoGitCall == [kind |-> "none", settings |-> NoGitSettings, outcome |-> "none"]

\* no Git subprocess was started
GitIdle == gEnv = NoGitSettings /\ gRemote = "ok" /\ gLast = NoGitCall

\* `options.timeout ?? 3000`, in seconds
DefaultTimeout == 3

\* a registry that never answers
NoAnswer == [fetch |-> "never", at |-> 0, ok |-> FALSE, bodyAfter |-> -1, body |-> "none"]

\* checkForUpdate was not called
NotifyIdle ==
    /\ nCall = [timeout |-> DefaultTimeout, server |-> NoAnswer]
    /\ nClock = 0
    /\ nPhase = "idle"
    /\ nTimer = "off"
    /\ nResult = "none"
    /\ nMessage = FALSE

\* the registries a user logs in to
AuthRegistries == {"r1", "r2", "r3"}

\* the value `undefined`, which is no token
Undefined == "undefined"

\* no ~/.reskillrc, or one that is empty or cannot be parsed
NoConfig == [file |-> "missing", registries |-> [r \in AuthRegistries |-> Undefined]]

\* no login or logout command ran
AuthIdle ==
    /\ aEnv = ""
    /\ aConfig = NoConfig
    /\ aReport = [r \in AuthRegistries |-> "none"]

\* the smaller specifications are not running
SideIdle == UpdateIdle /\ DispatchIdle /\ GitIdle /\ NotifyIdle /\ AuthIdle

InitPath ==
    /\ qA \in ParsedRefs
    /\ qB \in ParsedRefs
    /\ qVersion \in Versions
    /\ qPaths = <<>>
    /\ CacheIdle
    /\ RegistryIdle
    /\ BatchIdle
    /\ SideIdle

\* two calls of getSkillCachePath with the same resolved version
ComputePaths ==
    /\ qPaths = <<>>
    /\ qPaths' = <<getSkillCachePath(qA, qVersion), getSkillCachePath(qB, qVersion)>>
    /\ UNCHANGED <<qA, qB, qVersion, cacheVars, regVars, batchVars, sideVars>>

NextPath == ComputePaths

SpecPath == InitPath /\ [][NextPath]_vars

\* the two references agree on registry, owner and repository
SameRepo == qA.registry = qB.registry /\ qA.owner = qB.owner /\ qA.repo = qB.repo

\* a normalized subPath that stays inside the repository directory
Inside(sub) == NormalizeRel(sub) = <<>> \/ Head(NormalizeRel(sub)) # ".."

\* C1 as stated: same registry, owner, repository and version, subPath values
\* that differ (one of them may be absent): the two cache paths differ.
C1_AsStated ==
    (qPaths # <<>> /\ SameRepo /\ qA.subPath # qB.subPath) => qPaths[1] # qPaths[2]

\* C1 amended: same registry, owner, repository and version, the version an
\* ordinary name, subPath values that name different directories inside the
\* repository (they differ after path normalization and neither leaves the
\* repository): the two cache paths differ.
C1_DistinctDirsDistinctPaths ==
    (/\ qPaths # <<>>
     /\ SameRepo
     /\ qVersion \notin {".", "..", ""}
     /\ Inside(qA.subPath) /\ Inside(qB.subPath)
     /\ NormalizeRel(qA.subPath) # NormalizeRel(qB.subPath))
        => qPaths[1] # qPaths[2]

\* two skills of one monorepo, one of them at the repository root
C1_Witness ==
    /\ qPaths # <<>>
    /\ SameRepo
    /\ qVersion = "v1"
    /\ qA.subPath = <<>> /\ qB.subPath = <<"a", "b">>
    /\ qPaths[1] # qPaths[2]

(***************************************************************************)
(* utils/fs on a file system F = [dirs, files]                             *)
(***************************************************************************)
\* the file system of the current state
FS == [dirs |-> fsDirs, files |-> fsFiles]

\* f overwritten by g
Merge(f, g) ==
    [x \in DOMAIN f \cup DOMAIN g |-> IF x \in DOMAIN g THEN g[x] ELSE f[x]]

\* p and the directories above it
Prefixes(p) == {SubSeq(p, 1, n) : n \in 1..Len(p)}

\* exists(filePath)
Exists(F, p) == p \in F.dirs \/ p \in DOMAIN F.files

\* isDirectory(targetPath)
IsDirectory(F, p) == Exists(F, p) /\ p \in F.dirs

\* remove(targetPath): fs.rmSync(recursive, force) when the path exists
Remove(F, p) ==
    IF Exists(F, p)
    THEN [dirs  |-> {d \in F.dirs : ~IsPrefix(p, d)},
          files |-> [f \in {g \in DOMAIN F.files : ~IsPrefix(p, g)} |-> F.files[f]]]
    ELSE F

\* ensureDir(dirPath): fs.mkdirSync(recursive) when the path does not exist
EnsureDir(F, p) ==
    IF Exists(F, p) THEN F ELSE [F EXCEPT !.dirs = @ \cup Prefixes(p)]

\* the names that start with the exclude prefix '_'
HasExcludePrefix(name) == name \in {"_notes.md", "_private"}

\* The order in which readdirSync and the depth-first copy visit the files of
\* a directory, as paths relative to it.
FileOrder ==
    << <<".git", "HEAD">>, <<".reskill-commit">>, <<".reskill-source">>,
       <<"README.md">>, <<"SKILL.md">>, <<"_notes.md">>, <<"_private", "x.md">>,
       <<"a", "README.md">>, <<"a", "SKILL.md">>, <<"metadata.json">>, <<"old.md">> >>

\* the files below directory p, relative to it
RelFilesUnder(F, p) ==
    {SubSeq(f, Len(p) + 1, Len(f)) : f \in {g \in DOMAIN F.files : IsPrefix(p, g)}}

\* copyDir that applies its options to the entries of src only, not below
SkippedAtTopOnly(r, exclude) == r[1] \in exclude \/ HasExcludePrefix(r[1])

\* whether copyDir skips relative path r: one of its segments is in the
\* exclude list or starts with the exclude prefix (the default '_')
Skipped(r, exclude) ==
    \E i \in 1..Len(r) : r[i] \in exclude \/ HasExcludePrefix(r[i])

\* the files copyDir copies from src, in the order it copies them
CopyList(F, src, exclude) ==
    LET Copied(r) == r \in RelFilesUnder(F, src) /\ ~Skipped(r, exclude)
    IN  SelectSeq(FileOrder, Copied)

\* copyDir(src, dest, {exclude}) stopped by an error after n files; n is
\* Len(CopyList(F, src, exclude)) when the copy completes.
CopyDir(F, src, dest, exclude, n) ==
    LET all  == CopyList(F, src, exclude)
        list == SubSeq(all, 1, IF n < Len(all) THEN n ELSE Len(all))
        F1   == EnsureDir(F, dest)
        rels == {list[i] : i \in 1..Len(list)}
    IN  [dirs  |-> F1.dirs \cup UNION {Prefixes(Dirname(dest \o r)) : r \in rels},
         files |-> Merge(F1.files, [f \in {dest \o r : r \in rels} |->
                       F.files[src \o SubSeq(f, Len(dest) + 1, Len(f))]])]

\* fs.writeFileSync(path.join(dir, name), content)
WriteFile(F, dir, name, content) ==
    [F EXCEPT !.files = Merge(@, [f \in {Append(dir, name)} |-> content])]

(***************************************************************************)
(* The remote side: repositories and archives                              *)
(***************************************************************************)
Commits == {"c1", "c2"}

\* the files of the repository at a commit, relative to its root
RepoFiles(commit) ==
    IF commit = "c1"
    THEN {<<".git", "HEAD">>, <<"SKILL.md">>, <<"_notes.md">>, <<"a", "SKILL.md">>,
          <<"old.md">>}
    ELSE {<<".git", "HEAD">>, <<"SKILL.md">>, <<"a", "SKILL.md">>}

\* clone(repoUrl, dest, {depth: 1, branch: ref}) that succeeded, the ref
\* being at `commit`
CloneInto(F, dest, commit) ==
    LET rels == RepoFiles(commit)
    IN  [dirs  |-> F.dirs \cup Prefixes(dest)
                     \cup UNION {Prefixes(Dirname(dest \o r)) : r \in rels},
         files |-> Merge(F.files, [f \in {dest \o r : r \in rels} |-> commit])]

Urls == {"u1", "u2"}

\* the files of the archive behind a URL
ArchiveFiles(url) ==
    IF url = "u1"
    THEN {<<"README.md">>, <<"SKILL.md">>, <<"_notes.md">>, <<"_private", "x.md">>,
          <<"a", "README.md">>, <<"a", "SKILL.md">>, <<"metadata.json">>, <<"old.md">>}
    ELSE {<<"SKILL.md">>}

\* downloadAndExtract(url, dest) that succeeded
ExtractInto(F, dest, url) ==
    LET rels == ArchiveFiles(url)
    IN  [dirs  |-> F.dirs \cup Prefixes(dest)
                     \cup UNION {Prefixes(Dirname(dest \o r)) : r \in rels},
         files |-> Merge(F.files, [f \in {dest \o r : r \in rels} |-> url])]

\* sha256(`${url}@${version}`), first 40 hex digits
HttpCommit(url, version) == <<"sha256", url, version>>

(***************************************************************************)
(* CacheManager                                                            *)
(***************************************************************************)
\* a reference into the Git repository org/skills
GitRef(subPath) ==
    [registry |-> "github", owner |-> "org", repo |-> "skills", subPath |-> subPath]

\* the reference of the archive source
HttpRef == [registry |-> "github", owner |-> "org", repo |-> "tools", subPath |-> <<>>]

\* The keys cache is called with: the repository root at the branch named a,
\* the skill at sub-path a at v1, and a sub-path the repository does not have.
GitKeys == {<<GitRef(<<>>), "a">>, <<GitRef(<<"a">>), "v1">>, <<GitRef(<<"b">>), "v1">>}

\* the keys cacheFromHttp is called with
HttpKeys == {<<HttpRef, "v1">>}

\* `${cachePath}.tmp`
TempPath(cachePath) ==
    Append(Dirname(cachePath), cachePath[Len(cachePath)] \o ".tmp")

\* CacheManager.isCached
isCached(F, parsed, version) ==
    LET cachePath == getSkillCachePath(parsed, version)
    IN  Exists(F, cachePath) /\ IsDirectory(F, cachePath)

NotCached == [found |-> FALSE, path |-> <<>>, commit |-> ""]

\* CacheManager.get: null, or the path and the commit read from the marker
get(F, parsed, version) ==
    LET cachePath  == getSkillCachePath(parsed, version)
        commitFile == Append(cachePath, ".reskill-commit")
    IN  IF ~isCached(F, parsed, version) THEN NotCached
        ELSE [found  |-> TRUE,
              path   |-> cachePath,
              commit |-> IF Exists(F, commitFile) /\ commitFile \in DOMAIN F.files
                         THEN F.files[commitFile] ELSE ""]

\* the steps of cache at which an error can be thrown
CacheFailPoints == {"none", "clone", "commit", "copy", "marker"}

\* what cache leaves and returns: the file system, whether it returned, the
\* error thrown, the files the fetch delivered for the entry
Outcome(F, ok, error, fetched, commit) ==
    [fs |-> F, ok |-> ok, error |-> error, fetched |-> fetched, commit |-> commit]

\* the entry is left in place before a fetch
KeepExisting(F, cachePath) == F

\* cache and cacheFromHttp: "If exists, delete first"
RemoveExisting(F, cachePath) ==
    IF Exists(F, cachePath) THEN Remove(F, cachePath) ELSE F

\* the temporary directory is left behind
LeaveTemp(F, tempPath) == F

\* cache, sub-path not found: remove(tempPath) before the error is thrown
RemoveTemp(F, tempPath) == Remove(F, tempPath)

\* CacheManager.cache(repoUrl, parsed, ref, version), the ref being at
\* `commit` on the remote; `fail` is the step that throws and n the number of
\* files copied before a copy error.
cacheRun(F, parsed, version, commit, fail, n) ==
    LET cachePath == getSkillCachePath(parsed, version)
        F1 == RemoveExisting(F, cachePath)
        F2 == EnsureDir(F1, Dirname(cachePath))
        tempPath == TempPath(cachePath)
        F3 == Remove(F2, tempPath)
        F4 == CloneInto(F3, tempPath, commit)
        src == IF parsed.subPath # <<>> THEN PathJoin(<<tempPath, parsed.subPath>>)
               ELSE tempPath
        list == CopyList(F4, src, {".git"})
        fetched == {list[i] : i \in 1..Len(list)}
        F5 == CopyDir(F4, src, cachePath, {".git"}, Len(list))
        F6 == WriteFile(F5, cachePath, ".reskill-commit", commit)
    IN  IF fail = "clone" THEN Outcome(F3, FALSE, "clone", {}, "")
        ELSE IF fail = "commit" THEN Outcome(F4, FALSE, "commit", {}, "")
        ELSE IF parsed.subPath # <<>> /\ ~Exists(F4, src)
             THEN Outcome(RemoveTemp(F4, tempPath), FALSE, "subpath-not-found", {}, "")
        ELSE IF fail = "copy"
             THEN Outcome(CopyDir(F4, src, cachePath, {".git"}, n), FALSE, "copy",
                          fetched, "")
        ELSE IF fail = "marker" THEN Outcome(F5, FALSE, "marker", fetched, "")
        ELSE Outcome(Remove(F6, tempPath), TRUE, "", fetched, commit)

\* the steps of cacheFromHttp at which an error can be thrown
HttpFailPoints == {"none", "download", "marker", "source"}

\* CacheManager.cacheFromHttp(url, parsed, version)
cacheFromHttpRun(F, url, parsed, version, fail) ==
    LET cachePath == getSkillCachePath(parsed, version)
        F1 == RemoveExisting(F, cachePath)
        F2 == EnsureDir(F1, Dirname(cachePath))
        F3 == ExtractInto(F2, cachePath, url)
        commit == HttpCommit(url, version)
        F4 == WriteFile(F3, cachePath, ".reskill-commit", commit)
        F5 == WriteFile(F4, cachePath, ".reskill-source", url)
        fetched == ArchiveFiles(url)
    IN  IF fail = "download" THEN Outcome(F2, FALSE, "download", {}, "")
        ELSE IF fail = "marker" THEN Outcome(F3, FALSE, "marker", fetched, "")
        ELSE IF fail = "source" THEN Outcome(F4, FALSE, "source", fetched, "")
        ELSE Outcome(F5, TRUE, "", fetched, commit)

\* the record of an operation in `last`
Done(op, parsed, version, out, before) ==
    [op |-> op, parsed |-> parsed, version |-> version, ok |-> out.ok,
     error |-> out.error, before |-> before, fetched |-> out.fetched,
     commit |-> out.commit]

\* the numbers of files after which a copy error can stop cache
CopyStops(F, parsed, version, commit) ==
    0..(Cardinality(cacheRun(F, parsed, version, commit, "none", 0).fetched) - 1)

\* a call of cache
Cache ==
    /\ nOps < MaxOps
    /\ \E key \in GitKeys, commit \in Commits, fail \in CacheFailPoints :
          \E n \in IF fail = "copy" THEN CopyStops(FS, key[1], key[2], commit) ELSE {0} :
              LET cachePath == getSkillCachePath(key[1], key[2])
                  out == cacheRun(FS, key[1], key[2], commit, fail, n)
              IN  /\ fsDirs' = out.fs.dirs
                  /\ fsFiles' = out.fs.files
                  /\ last' = Done("cache", key[1], key[2], out,
                                  RelFilesUnder(FS, cachePath))
    /\ nOps' = nOps + 1
    /\ UNCHANGED <<pathVars, regVars, batchVars, sideVars>>

\* a call of cacheFromHttp
CacheFromHttp ==
    /\ nOps < MaxOps
    /\ \E key \in HttpKeys, url \in Urls, fail \in HttpFailPoints :
          LET cachePath == getSkillCachePath(key[1], key[2])
              out == cacheFromHttpRun(FS, url, key[1], key[2], fail)
          IN  /\ fsDirs' = out.fs.dirs
              /\ fsFiles' = out.fs.files
              /\ last' = Done("cacheFromHttp", key[1], key[2], out,
                              RelFilesUnder(FS, cachePath))
    /\ nOps' = nOps + 1
    /\ UNCHANGED <<pathVars, regVars, batchVars, sideVars>>

(***************************************************************************)
(* Specification SpecCache: operations on one cache directory              *)
(***************************************************************************)
PathIdle ==
    /\ qA = CHOOSE r \in ParsedRefs : r.repo = "skills" /\ r.subPath = <<>>
    /\ qB = qA
    /\ qVersion = "v1"
    /\ qPaths = <<>>

InitCache ==
    /\ PathIdle
    /\ CacheIdle
    /\ RegistryIdle
    /\ BatchIdle
    /\ SideIdle

NextCache ==
    \/ Cache
    \/ CacheFromHttp

SpecCache == InitCache /\ [][NextCache]_vars

\* the last operation was a fetch into the cache
Fetched == last.op \in {"cache", "cacheFromHttp"}

\* the marker and source files the cache manager writes into an entry
MarkerFiles == {<<".reskill-commit">>, <<".reskill-source">>}

\* C2: after a fetch into the cache that failed, at whatever step, the cache
\* reports no entry for that key: isCached is false and get returns null.
C2_FailedFetchLeavesNoEntry ==
    (Fetched /\ ~last.ok) =>
        /\ ~isCached(FS, last.parsed, last.version)
        /\ ~get(FS, last.parsed, last.version).found

\* C9: after a successful fetch of a key, no file that was in the cache
\* directory of that key before the fetch and is not part of the fetched
\* content is still there.
C9_RefetchReplacesEntry ==
    (Fetched /\ last.ok) =>
        \A r \in last.before :
            r \in RelFilesUnder(FS, getSkillCachePath(last.parsed, last.version))
                => r \in last.fetched \cup MarkerFiles

\* a successful re-fetch over an entry that held a file the new content lacks
C9_Witness ==
    /\ Fetched /\ last.ok
    /\ <<"old.md">> \in last.before
    /\ <<"old.md">> \notin last.fetched
    /\ <<"SKILL.md">> \in RelFilesUnder(FS, getSkillCachePath(last.parsed, last.version))

\* the cache entry of a key: the directories and the files, with their
\* content, at and below its cache path
EntryOf(F, key) ==
    LET cachePath == getSkillCachePath(key[1], key[2])
    IN  [dirs  |-> {d \in F.dirs : IsPrefix(cachePath, d)},
         files |-> [f \in {g \in DOMAIN F.files : IsPrefix(cachePath, g)} |-> F.files[f]]]

\* the file system after the step
FSNext == [dirs |-> fsDirs', files |-> fsFiles']

\* C21: caching or re-caching one key never creates, changes or removes
\* anything in the cache entry of another key.
C21_OtherEntriesUntouched ==
    [][(nOps' = nOps + 1 /\ last'.op \in {"cache", "cacheFromHttp"}) =>
          \A k \in GitKeys \cup HttpKeys :
              k # <<last'.parsed, last'.version>> => EntryOf(FSNext, k) = EntryOf(FS, k)]_vars

\* C22 as stated: when a re-fetch of a key that has a valid entry fails, the
\* entry is still there afterwards and get returns it with its commit.
C22_FailedRefetchKeepsEntry ==
    [][(/\ nOps' = nOps + 1
        /\ last'.op \in {"cache", "cacheFromHttp"}
        /\ ~last'.ok
        /\ get(FS, last'.parsed, last'.version).found
        /\ get(FS, last'.parsed, last'.version).commit # "")
          => /\ get(FSNext, last'.parsed, last'.version)
                  = get(FS, last'.parsed, last'.version)
             /\ EntryOf(FSNext, <<last'.parsed, last'.version>>)
                  = EntryOf(FS, <<last'.parsed, last'.version>>)]_vars

\* C22, amended: a re-fetch deletes the entry before it fetches, so after a
\* re-fetch that failed before anything was written (at the clone, at the
\* commit query, at the download) the key has no entry: isCached is false and
\* get returns null.
C22_FailedRefetchLosesEntry ==
    (Fetched /\ ~last.ok /\ last.error \in {"clone", "commit", "download"}) =>
        /\ ~isCached(FS, last.parsed, last.version)
        /\ ~get(FS, last.parsed, last.version).found

\* a re-fetch over an entry with a commit marker failed at the clone
C22_Witness ==
    /\ Fetched /\ ~last.ok /\ last.error = "clone"
    /\ <<".reskill-commit">> \in last.before
    /\ ~isCached(FS, last.parsed, last.version)

\* C24: when the sub-path is not in the fetched tree, cache fails with the
\* sub-path-not-found error, and afterwards the key has no cache entry and
\* its temporary directory is gone.
C24_MissingSubPathLeavesNothing ==
    /\ (last.op = "cache" /\ last.parsed.subPath = <<"b">>)
          => (~last.ok /\ last.error \in {"clone", "commit", "subpath-not-found"})
    /\ (last.op = "cache" /\ last.error = "subpath-not-found") =>
          /\ ~isCached(FS, last.parsed, last.version)
          /\ ~get(FS, last.parsed, last.version).found
          /\ ~Exists(FS, TempPath(getSkillCachePath(last.parsed, last.version)))

\* cache of the sub-path the repository does not have, after another entry
\* of the repository was cached
C24_Witness ==
    /\ last.op = "cache" /\ last.error = "subpath-not-found"
    /\ last.parsed.subPath = <<"b">>
    /\ isCached(FS, GitRef(<<"a">>), "v1")

\* C28: when a Git cache operation has ended, by a return or by an error,
\* its temporary directory <cachePath>.tmp does not exist.
C28_NoTempAfterCache ==
    last.op = "cache" =>
        ~Exists(FS, TempPath(getSkillCachePath(last.parsed, last.version)))

(***************************************************************************)
(* utils/registry-scope: skill identifiers, as sequences of characters     *)
(***************************************************************************)
\* [\w-]: the word characters and the hyphen; "git" is a run of letters
WordChars ==
    {"a", "c", "e", "k", "m", "n", "s", "t", "u", "y", "1", "2", "_", "-", "git"}

\* whether every character of s matches [\w-]
AllWord(s) == \A i \in 1..Len(s) : s[i] \in WordChars

\* the index of the first c in s, 0 when there is none
IndexOf(s, c) ==
    IF \E i \in 1..Len(s) : s[i] = c
    THEN CHOOSE i \in 1..Len(s) : s[i] = c /\ \A j \in 1..(i - 1) : s[j] # c
    ELSE 0

\* s from index i on
From(s, i) == SubSeq(s, i, Len(s))

RECURSIVE Trim(_)
\* String.prototype.trim
Trim(s) ==
    IF s # <<>> /\ Head(s) = " " THEN Trim(Tail(s))
    ELSE IF s # <<>> /\ s[Len(s)] = " " THEN Trim(SubSeq(s, 1, Len(s) - 1))
    ELSE s

InvalidIdentifier ==
    [valid |-> FALSE, scope |-> <<>>, name |-> <<>>, version |-> <<>>, fullName |-> <<>>]

\* name[@version] matched against ^([\w-]+)(?:@(.+))?$; scope is the scope
\* matched before it, <<>> for none
NameAndVersion(scope, rest) ==
    LET at   == IndexOf(rest, "@")
        name == IF at = 0 THEN rest ELSE SubSeq(rest, 1, at - 1)
        ver  == IF at = 0 THEN <<>> ELSE From(rest, at + 1)
    IN  IF name = <<>> \/ ~AllWord(name) \/ (at # 0 /\ ver = <<>>)
        THEN InvalidIdentifier
        ELSE [valid |-> TRUE, scope |-> scope, name |-> name, version |-> ver,
              fullName |-> IF scope = <<>> THEN name ELSE scope \o <<"/">> \o name]

\* parseSkillIdentifier; valid = FALSE stands for the thrown
\* "Invalid skill identifier"
parseSkillIdentifier(identifier) ==
    LET trimmed == Trim(identifier)
        slash   == IndexOf(trimmed, "/")
        scope   == SubSeq(trimmed, 1, slash - 1)
    IN  IF trimmed = <<>> THEN InvalidIdentifier
        ELSE IF Len(trimmed) >= 2 /\ trimmed[1] = "@" /\ trimmed[2] = "@"
             THEN InvalidIdentifier
        ELSE IF trimmed = <<"@">> THEN InvalidIdentifier
        ELSE IF trimmed[1] = "@"
             THEN IF slash < 3 \/ ~AllWord(Tail(scope)) THEN InvalidIdentifier
                  ELSE NameAndVersion(scope, From(trimmed, slash + 1))
        ELSE NameAndVersion(<<>>, trimmed)

\* getShortName(fullName): the name without the scope
getShortName(fullName) ==
    LET slash == IndexOf(fullName, "/")
    IN  IF fullName # <<>> /\ fullName[1] = "@" /\ slash > 1 /\ slash < Len(fullName)
        THEN From(fullName, slash + 1)
        ELSE fullName

\* the scopes of REGISTRY_SCOPE_MAP
KnownScopes ==
    {<<"@", "k", "a", "n", "y", "u", "n">>,
     <<"@", "k", "a", "n", "y", "u", "n", "-", "t", "e", "s", "t">>}

\* getRegistryUrl(scope): the public registry without a scope, the private
\* registry of a known scope, "" for the thrown "Unknown scope"
getRegistryUrl(scope) ==
    IF scope = <<>> THEN "https://reskill.info/"
    ELSE IF scope = <<"@", "k", "a", "n", "y", "u", "n">>
         THEN "https://rush.zhenguanyu.com/"
    ELSE IF scope \in KnownScopes THEN "https://rush-test.zhenguanyu.com/"
    ELSE ""

(***************************************************************************)
(* RegistryResolver                                                        *)
(***************************************************************************)
\* the tarballs a download can deliver
Tarballs == {"t1", "t2", "t3"}

\* RegistryClient.calculateIntegrity(tarball): the sha256 digest
calculateIntegrity(tarball) ==
    IF tarball = "t1" THEN "sha256-1"
    ELSE IF tarball = "t2" THEN "sha256-2"
    ELSE "sha256-3"

Digests == {calculateIntegrity(t) : t \in Tarballs}

\* RegistryClient.verifyIntegrity(tarball, integrity)
verifyIntegrity(tarball, integrity) == calculateIntegrity(tarball) = integrity

\* the references resolve is called with: @kanyun/sk@1, @kanyun/sk, @acme/sk,
\* sk@1 and @@sk
RegistryRefs ==
    {<<"@", "k", "a", "n", "y", "u", "n", "/", "s", "k", "@", "1">>,
     <<"@", "k", "a", "n", "y", "u", "n", "/", "s", "k">>,
     <<"@", "a", "c", "m", "e", "/", "s", "k">>,
     <<"s", "k", "@", "1">>,
     <<"@", "@", "s", "k">>}

\* the answer of the registry to resolveVersion and downloadSkill: whether
\* each call succeeds, the version, the tarball and the x-integrity header
RegistryAnswers ==
    [versionOk : BOOLEAN, version : {"1.0.0", "2.0.0"}, downloadOk : BOOLEAN,
     tarball : Tarballs, integrity : Digests]

Failed(ref, error) == [NoResolve EXCEPT !.ref = ref, !.error = error]

\* resolve that returns whatever was downloaded
resolveRunUnverified(ref, answer) ==
    LET parsed == parseSkillIdentifier(ref)
    IN  IF ~parsed.valid THEN Failed(ref, "invalid-identifier")
        ELSE IF getRegistryUrl(parsed.scope) = "" THEN Failed(ref, "unknown-scope")
        ELSE IF ~answer.versionOk THEN Failed(ref, "version")
        ELSE IF ~answer.downloadOk THEN Failed(ref, "download")
        ELSE [ref |-> ref, ok |-> TRUE, error |-> "",
              shortName |-> getShortName(parsed.fullName), version |-> answer.version,
              tarball |-> answer.tarball, integrity |-> answer.integrity]

\* RegistryResolver.resolve(ref), the registry answering `answer`
resolveRun(ref, answer) ==
    LET parsed == parseSkillIdentifier(ref)
        shortName == getShortName(parsed.fullName)
        registryUrl == getRegistryUrl(parsed.scope)
    IN  IF ~parsed.valid THEN Failed(ref, "invalid-identifier")
        ELSE IF registryUrl = "" THEN Failed(ref, "unknown-scope")
        ELSE IF ~answer.versionOk THEN Failed(ref, "version")
        ELSE IF ~answer.downloadOk THEN Failed(ref, "download")
        ELSE IF ~verifyIntegrity(answer.tarball, answer.integrity)
             THEN [Failed(ref, "integrity") EXCEPT !.tarball = answer.tarball,
                                                   !.integrity = answer.integrity]
        ELSE [ref |-> ref, ok |-> TRUE, error |-> "", shortName |-> shortName,
              version |-> answer.version, tarball |-> answer.tarball,
              integrity |-> answer.integrity]

\* RegistryResolver.extract(tarball, destDir) for the result of a resolve
ExtractResolved(dirs, dest, result) ==
    [dirs EXCEPT ![dest] = [tarball |-> result.tarball, integrity |-> result.integrity]]

\* The install of a registry reference: resolve, then the tarball of the
\* result is extracted into the cache, copied to the canonical directory and
\* to the agent directory; a thrown error ends the pipeline.
InstallFromRegistry ==
    /\ \E ref \in RegistryRefs, answer \in RegistryAnswers :
          LET result == resolveRun(ref, answer)
          IN  /\ regResult' = result
              /\ regDirs' = IF result.ok
                            THEN ExtractResolved(
                                     ExtractResolved(
                                         ExtractResolved(regDirs, "cache", result),
                                         "canonical", result),
                                     "agent", result)
                            ELSE regDirs
    /\ UNCHANGED <<pathVars, cacheVars, batchVars, sideVars>>

\* a skill is removed from the agent directory
Uninstall ==
    /\ regDirs["agent"] # NothingExtracted
    /\ regDirs' = [regDirs EXCEPT !["agent"] = NothingExtracted]
    /\ UNCHANGED <<pathVars, cacheVars, regResult, batchVars, sideVars>>

(***************************************************************************)
(* Specification SpecRegistry: installs from a registry                    *)
(***************************************************************************)
InitRegistry ==
    /\ PathIdle
    /\ CacheIdle
    /\ RegistryIdle
    /\ BatchIdle
    /\ SideIdle

NextRegistry ==
    \/ InstallFromRegistry
    \/ Uninstall

SpecRegistry == InitRegistry /\ [][NextRegistry]_vars

MaxRuns == 2

\* the version a reference resolves to: `latest` is the highest remote tag
ResolveVersion(ref, rem) == IF ref.version = "latest" THEN rem.latest ELSE ref.version

\* no stage fails
StageErrorIgnored(ref, rem) == ""

\* the stage that fails before anything is installed, "" for none:
\* a reference that does not parse fails at the parse; a missing repository
\* fails the tag listing of `latest`, and the fetch of an exact version
\* (which needs no remote round trip before the fetch)
StageError(ref, rem) ==
    IF ref.version = "" THEN "parse"
    ELSE IF ref.name \in rem.missing
         THEN IF ref.version = "latest" THEN "resolve" ELSE "fetch"
    ELSE ""

\* the stages of the pipeline of a reference, in order
StageOrder == <<"Parsed", "VersionResolved", "Cached", "Installed", "Locked">>

\* the stages passed when the pipeline fails with the error
StagesBefore(error) ==
    IF error = "parse" THEN <<>>
    ELSE IF error = "resolve" THEN SubSeq(StageOrder, 1, 1)
    ELSE IF error = "fetch" THEN SubSeq(StageOrder, 1, 2)
    ELSE IF error = "install" THEN SubSeq(StageOrder, 1, 3)
    ELSE IF error = "lock" THEN SubSeq(StageOrder, 1, 4)
    ELSE StageOrder

\* Installer, one target, without the already-installed exception
TargetResultNoException(P, ref, version, t, force, unw) ==
    LET cur == P.agentDirs[ref.name][t]
    IN  IF cur \notin {"none", "link"} /\ ~force THEN "conflict"
        ELSE IF t \in unw THEN "failed"
        ELSE "installed"

\* Installer, one target, an existing destination being overwritten
TargetResultNoConflict(P, ref, version, t, force, unw) ==
    LET cur == P.agentDirs[ref.name][t]
    IN  IF cur # "none" /\ ~force /\ P.lock[ref.name] = [ref |-> ref, version |-> version]
        THEN "noop"
        ELSE IF t \in unw THEN "failed"
        ELSE "installed"

\* Installer, one target: "installed", "noop" (already installed), "conflict"
\* (ConflictError, raised before anything is written) or "failed" (the
\* directory cannot be written)
TargetResult(P, ref, version, t, force, unw) ==
    LET cur == P.agentDirs[ref.name][t]
    IN  IF cur # "none" /\ ~force /\ P.lock[ref.name] = [ref |-> ref, version |-> version]
        THEN "noop"
        ELSE IF cur \notin {"none", "link"} /\ ~force THEN "conflict"
        ELSE IF t \in unw THEN "failed"
        ELSE "installed"

\* a failed symlink creation fails the target
LinkNoFallback(result, mode, t, nolink) ==
    IF result = "installed" /\ mode = "symlink" /\ t \in nolink THEN "failed" ELSE result

\* symlink mode: when the symlink cannot be created the target gets a full
\* copy and the result is marked symlinkFailed ("copied")
LinkFallback(result, mode, t, nolink) ==
    IF result = "installed" /\ mode = "symlink" /\ t \in nolink THEN "copied" ELSE result

Success(r) == r \in {"installed", "copied", "noop"}

SuccessCount(results) == Cardinality({t \in DOMAIN results : Success(results[t])})

\* the lock entry is written whatever the targets reported
LockAlways(results) == TRUE

\* the lock entry is written when some target succeeded
LockOnAnySuccess(results) == \E t \in DOMAIN results : Success(results[t])

\* whether the lock entry is written: after a fully successful install
ShouldRecordLock(results) ==
    /\ DOMAIN results # {}
    /\ \A t \in DOMAIN results : Success(results[t])

\* ConfigLoader.addSkill: the reference of the skill is replaced or appended
addSkill(skills, name, ref) ==
    IF \E i \in 1..Len(skills) : skills[i].name = name
    THEN [i \in 1..Len(skills) |->
             IF skills[i].name = name THEN [name |-> name, ref |-> ref] ELSE skills[i]]
    ELSE Append(skills, [name |-> name, ref |-> ref])

\* what the directory of an agent holds after an install in the mode
Installed(mode, version) == IF mode = "symlink" THEN "link" ELSE version

\* installToAgents(ref, targets, {force, save, mode}) on the project P =
\* [skills, lock, agentDirs, canonical], the remotes being rem and the
\* directories of unw unwritable and those of nolink refusing symlinks
installToAgentsRun(P, ref, targets, force, save, mode, rem, unw, nolink) ==
    LET error   == StageError(ref, rem)
        version == ResolveVersion(ref, rem)
        results == [t \in targets |->
                       LinkFallback(TargetResult(P, ref, version, t, force, unw),
                                    mode, t, nolink)]
        written == {t \in targets : results[t] \in {"installed", "copied"}}
        dirs    == [P.agentDirs EXCEPT ![ref.name] =
                       [t \in Agents |->
                           IF t \notin written THEN P.agentDirs[ref.name][t]
                           ELSE IF results[t] = "copied" THEN version
                           ELSE Installed(mode, version)]]
        canon   == IF written # {} /\ mode = "symlink"
                   THEN [P.canonical EXCEPT ![ref.name] = version]
                   ELSE P.canonical
        record  == ShouldRecordLock(results)
        locked  == IF record
                   THEN [P.lock EXCEPT ![ref.name] = [ref |-> ref, version |-> version]]
                   ELSE P.lock
        skills  == IF save THEN addSkill(P.skills, ref.name, ref) ELSE P.skills
        failure == IF \E t \in targets : ~Success(results[t]) THEN "install"
                   ELSE IF ~record THEN "lock"
                   ELSE ""
    IN  IF error # ""
        THEN [threw |-> TRUE, error |-> error, version |-> "", results |-> <<>>,
              stages |-> StagesBefore(error), failure |-> error, project |-> P]
        ELSE [threw |-> FALSE, error |-> "", version |-> version, results |-> results,
              stages |-> StagesBefore(failure), failure |-> failure,
              project |-> [skills |-> skills, lock |-> locked, agentDirs |-> dirs,
                           canonical |-> canon]]

\* the project as installToAgents sees it
CurrentProject ==
    [skills |-> skillsJson.skills, lock |-> lock, agentDirs |-> agentDirs,
     canonical |-> canonical]

\* the record of one installToAgents call
CallRecord(key, ref, targets, force, P, out, prev) ==
    [name |-> key, ref |-> ref, targets |-> targets, force |-> force,
     threw |-> out.threw, error |-> out.error, version |-> out.version,
     results |-> out.results, stages |-> out.stages, failure |-> out.failure,
     lockBefore |-> P.lock[ref.name], lockAfter |-> out.project.lock[ref.name],
     dirsBefore |-> P.agentDirs[ref.name], dirsAfter |-> out.project.agentDirs[ref.name],
     repeat |-> /\ ~out.threw
                /\ prev = [ref |-> ref, version |-> out.version, targets |-> targets,
                           allOk |-> TRUE]]

\* what the next call sees of this one
Summary(ref, targets, out) ==
    [ref |-> ref, version |-> out.version, targets |-> targets,
     allOk |-> ~out.threw /\ \A t \in targets : Success(out.results[t])]

(***************************************************************************)
(* The install command, run with --yes                                     *)
(***************************************************************************)
\* detectInstalledAgents
DetectedAgents == {"cursor"}

\* the values of --agent; {} when the option is absent
AgentOptions == {{}, {"cursor", "claude"}}

\* the values of --mode; "" when the option is absent
ModeOptions == {"", "copy"}

\* the references given on the command line
InstallRefs == {r \in Refs : r.name # "b"}

\* resolveTargetAgents
resolveTargetAgents(agentOption, defaults, isReinstallAll) ==
    IF agentOption # {} THEN agentOption
    ELSE IF isReinstallAll /\ defaults.targetAgents # {} THEN defaults.targetAgents
    ELSE IF DetectedAgents = {} THEN Agents
    ELSE DetectedAgents

\* resolveInstallMode
resolveInstallMode(modeOption, defaults, isReinstallAll) ==
    IF modeOption # "" THEN modeOption
    ELSE IF isReinstallAll /\ defaults.installMode # "" THEN defaults.installMode
    ELSE IF defaults.installMode # "" THEN defaults.installMode
    ELSE "symlink"

\* the loop goes on after an attempt that threw
LoopStopsOnThrow(threw) == IF threw THEN "abort" ELSE "next"

\* a loop that starts the calls without waiting for them
CallsWithoutAwait(calls) == TRUE

\* `await skillManager.installToAgents(...)` in the for loop: the next call
\* is made when no call is pending
AwaitsEachCall(calls) == calls = {}

\* the try/catch around the installToAgents call of installAllSkills
LoopControl(threw) == "next"

\* the project after a call
SetProject(P) ==
    /\ lock' = P.lock
    /\ agentDirs' = P.agentDirs
    /\ canonical' = P.canonical

\* a command begins
Begin(command, targets, mode, force, global) ==
    /\ pc \in {"idle", "done"}
    /\ nRuns < MaxRuns
    /\ nRuns' = nRuns + 1
    /\ cmd' = command
    /\ ctx' = [targetAgents |-> targets, mode |-> mode, force |-> force, global |-> global]
    /\ inFlight' = {}

\* the defaults are written after every run that finds a manifest
SavesAfterAnyRun(installGlobally, successCount, exists) == exists

\* `!installGlobally && successful.length > 0 && configLoader.exists()`
ShouldSaveDefaults(installGlobally, successCount, exists) ==
    ~installGlobally /\ successCount > 0 /\ exists

\* the directories under the home directory of the user, which a global
\* install writes to: they are no part of the project, and start empty
HomeProject ==
    [skills |-> <<>>, lock |-> [n \in SkillNames |-> NoLock],
     agentDirs |-> [n \in SkillNames |-> [t \in Agents |-> "none"]],
     canonical |-> [n \in SkillNames |-> ""]]

\* installSingleSkill, `reskill install <skill> -y`: in the project scope,
\* saving to the manifest, or with --global, where nothing of the project is
\* written
InstallSingleSkill ==
    \E skill \in InstallRefs, agentOption \in AgentOptions, modeOption \in ModeOptions,
       force \in BOOLEAN, installGlobally \in BOOLEAN :
       LET targets == resolveTargetAgents(agentOption, skillsJson.defaults, FALSE)
           mode    == resolveInstallMode(modeOption, skillsJson.defaults, FALSE)
           P       == IF installGlobally THEN HomeProject ELSE CurrentProject
           save    == ~installGlobally
           out     == installToAgentsRun(P, skill, targets, force, save, mode,
                                         remote, unwritable, symlinkFails)
           saved   == ~out.threw /\ save
           exists  == skillsJson.exists \/ saved
           count   == IF out.threw THEN 0 ELSE SuccessCount(out.results)
           update  == ~out.threw /\ ShouldSaveDefaults(installGlobally, count, exists)
       IN  /\ installGlobally => (agentOption = {} /\ ~force)
           /\ Begin("install", targets, mode, force, installGlobally)
           /\ SetProject(IF installGlobally THEN CurrentProject ELSE out.project)
           /\ skillsJson' =
                 [exists |-> exists,
                  skills |-> IF installGlobally THEN skillsJson.skills
                             ELSE out.project.skills,
                  defaults |-> IF update
                               THEN [targetAgents |-> targets, installMode |-> mode]
                               ELSE skillsJson.defaults]
           /\ attempts' = <<CallRecord(skill.name, skill, targets, force, P, out,
                                       IF installGlobally THEN NoCall ELSE prevCall)>>
           /\ prevCall' = IF installGlobally THEN NoCall
                          ELSE Summary(skill, targets, out)
           /\ totalInstalled' = count
           /\ totalFailed' = IF out.threw THEN 0
                             ELSE Cardinality(targets) - SuccessCount(out.results)
           /\ defaultsSaved' = update
           /\ exitCode' = IF out.threw THEN 1 ELSE 0
           /\ pc' = "done"
           /\ UNCHANGED <<remote, unwritable, symlinkFails>>
    /\ UNCHANGED <<pathVars, cacheVars, regVars, sideVars>>

\* `reskill install -y` up to the loop of installAllSkills
StartReinstall ==
    /\ \E agentOption \in AgentOptions, modeOption \in ModeOptions, force \in BOOLEAN,
          global \in BOOLEAN :
          LET targets == resolveTargetAgents(agentOption, skillsJson.defaults, TRUE)
              mode    == resolveInstallMode(modeOption, skillsJson.defaults, TRUE)
          IN  /\ global => (agentOption = {} /\ modeOption = "" /\ ~force)
              /\ Begin("reinstall", targets, mode, force, global)
              /\ IF global \/ ~skillsJson.exists
                 THEN pc' = "done" /\ exitCode' = 1
                 ELSE IF skillsJson.skills = <<>>
                      THEN pc' = "done" /\ exitCode' = 0
                      ELSE pc' = "loop" /\ exitCode' = -1
    /\ attempts' = <<>>
    /\ totalInstalled' = 0
    /\ totalFailed' = 0
    /\ defaultsSaved' = FALSE
    /\ UNCHANGED <<projectVars, prevCall>>
    /\ UNCHANGED <<pathVars, cacheVars, regVars, sideVars>>

\* the loop of installAllSkills calls installToAgents for the next entry of
\* the manifest
ReinstallCall ==
    /\ pc = "loop"
    /\ Len(attempts) + Cardinality(inFlight) < Len(skillsJson.skills)
    /\ AwaitsEachCall(inFlight)
    /\ inFlight' = inFlight \cup {Len(attempts) + Cardinality(inFlight) + 1}
    /\ UNCHANGED <<projectVars, pc, cmd, ctx, attempts, totalInstalled, totalFailed,
                   defaultsSaved, exitCode, prevCall, nRuns>>
    /\ UNCHANGED <<pathVars, cacheVars, regVars, sideVars>>

\* the installToAgents call of the loop returns or throws, and the iteration
\* ends
ReinstallNext ==
    /\ pc = "loop"
    /\ Len(attempts) < Len(skillsJson.skills)
    /\ Len(attempts) + 1 \in inFlight
    /\ inFlight' = inFlight \ {Len(attempts) + 1}
    /\ LET entry == skillsJson.skills[Len(attempts) + 1]
           P     == CurrentProject
           out   == installToAgentsRun(P, entry.ref, ctx.targetAgents, ctx.force, FALSE,
                                       ctx.mode, remote, unwritable, symlinkFails)
           successCount == SuccessCount(out.results)
       IN  /\ SetProject(out.project)
           /\ attempts' = Append(attempts,
                  CallRecord(entry.name, entry.ref, ctx.targetAgents, ctx.force, P, out,
                             prevCall))
           /\ prevCall' = Summary(entry.ref, ctx.targetAgents, out)
           /\ totalInstalled' = IF out.threw THEN totalInstalled
                                ELSE totalInstalled + successCount
           /\ totalFailed' = IF out.threw
                             THEN totalFailed + Cardinality(ctx.targetAgents)
                             ELSE totalFailed + Cardinality(ctx.targetAgents) - successCount
           /\ IF LoopControl(out.threw) = "abort"
              THEN pc' = "done" /\ exitCode' = 1
              ELSE pc' = "loop" /\ exitCode' = exitCode
    /\ UNCHANGED <<skillsJson, remote, unwritable, symlinkFails, cmd, ctx, defaultsSaved,
                   nRuns>>
    /\ UNCHANGED <<pathVars, cacheVars, regVars, sideVars>>

\* installAllSkills after the loop, and the end of the command
FinishReinstall ==
    /\ pc = "loop"
    /\ Len(attempts) = Len(skillsJson.skills)
    /\ inFlight = {}
    /\ defaultsSaved' = (totalInstalled > 0)
    /\ skillsJson' =
          IF totalInstalled > 0
          THEN [skillsJson EXCEPT !.defaults = [targetAgents |-> ctx.targetAgents,
                                                installMode |-> ctx.mode]]
          ELSE skillsJson
    /\ pc' = "done"
    /\ exitCode' = 0
    /\ UNCHANGED <<lock, agentDirs, canonical, remote, unwritable, symlinkFails, cmd, ctx,
                   attempts,
                   totalInstalled, totalFailed, prevCall, nRuns, inFlight>>
    /\ UNCHANGED <<pathVars, cacheVars, regVars, sideVars>>

\* a newer tag is published on the remotes
PublishTag ==
    /\ remote.latest = "v1"
    /\ remote' = [remote EXCEPT !.latest = "v2"]
    /\ UNCHANGED <<skillsJson, lock, agentDirs, canonical, unwritable, symlinkFails,
                   commandVars>>
    /\ UNCHANGED <<pathVars, cacheVars, regVars, sideVars>>

(***************************************************************************)
(* Specification SpecBatch: install commands on one project                *)
(***************************************************************************)
\* the manifests a project starts with
Manifests ==
    {[exists |-> FALSE, skills |-> <<>>, defaults |-> NoDefaults],
     [exists |-> TRUE, skills |-> <<>>, defaults |-> NoDefaults],
     [exists |-> TRUE, defaults |-> NoDefaults,
      skills |-> <<[name |-> "a", ref |-> [name |-> "a", version |-> "latest"]],
                   [name |-> "bad", ref |-> [name |-> "bad", version |-> ""]],
                   [name |-> "b", ref |-> [name |-> "b", version |-> "v1"]]>>]}

\* the agent directories of a project in which the tool installed nothing
NoDirs == [n \in SkillNames |-> [t \in Agents |-> "none"]]

\* the same with a directory b that the user made by hand for claude
HandMadeDir == [NoDirs EXCEPT !["b"]["claude"] = "unmanaged"]

\* the surroundings of a project: nothing in the way, or one obstacle
Environments ==
    {[dirs |-> NoDirs, missing |-> {}, unwritable |-> {}, symlinkFails |-> {}],
     [dirs |-> HandMadeDir, missing |-> {}, unwritable |-> {}, symlinkFails |-> {}],
     [dirs |-> NoDirs, missing |-> {"a"}, unwritable |-> {}, symlinkFails |-> {}],
     [dirs |-> NoDirs, missing |-> {}, unwritable |-> {"claude"}, symlinkFails |-> {}],
     [dirs |-> NoDirs, missing |-> {}, unwritable |-> {}, symlinkFails |-> {"cursor"}]}

InitBatch ==
    /\ PathIdle
    /\ CacheIdle
    /\ RegistryIdle
    /\ skillsJson \in Manifests
    /\ lock = [n \in SkillNames |-> NoLock]
    /\ canonical = [n \in SkillNames |-> ""]
    /\ \E env \in Environments :
          /\ agentDirs = env.dirs
          /\ remote = [latest |-> "v1", missing |-> env.missing]
          /\ unwritable = env.unwritable
          /\ symlinkFails = env.symlinkFails
    /\ SideIdle
    /\ CommandIdle

NextBatch ==
    \/ ReinstallCall
    \/ InstallSingleSkill
    \/ StartReinstall
    \/ ReinstallNext
    \/ FinishReinstall
    \/ PublishTag

SpecBatch == InitBatch /\ [][NextBatch]_vars

\* the calls of the command that ran or runs
Calls == {attempts[i] : i \in 1..Len(attempts)}

C5_AnyFailureExitsOne ==
    (cmd = "reinstall" /\ pc = "done" /\ totalFailed > 0) => exitCode = 1

\* C6: a call changes the lock entry of its skill only when it did not
\* throw and at least one of its targets succeeded.
C6_LockNeedsASuccessfulTarget ==
    \A a \in Calls :
        a.lockAfter # a.lockBefore => (~a.threw /\ SuccessCount(a.results) > 0)

\* a call wrote a lock entry after two targets succeeded, and another call
\* in which no target succeeded left the lock entry alone
C6_Witness ==
    \E a \in Calls :
        /\ a.lockAfter # a.lockBefore
        /\ a.targets = {"cursor", "claude"}
        /\ SuccessCount(a.results) = 2

\* C7: a call that threw at a stage of the pipeline, or in which some
\* requested target failed, leaves the lock entry of its skill as it was.
C7_LockOnlyAfterFullSuccess ==
    \A a \in Calls :
        (a.threw \/ \E t \in a.targets : ~Success(a.results[t]))
            => a.lockAfter = a.lockBefore

\* one target was installed, the other failed, and no lock entry was written
C7_Witness ==
    \E a \in Calls :
        /\ ~a.threw
        /\ a.targets = {"cursor", "claude"}
        /\ a.results["cursor"] = "installed"
        /\ a.results["claude"] = "failed"
        /\ a.lockAfter = NoLock

\* C8: a reinstall of the manifest attempts only skills that are in the
\* lock store, and the version it installs is the locked version.
C8_ReinstallUsesLockOnly ==
    cmd = "reinstall" =>
        \A a \in Calls :
            /\ a.lockBefore # NoLock
            /\ ~a.threw => a.version = a.lockBefore.version

C12_SymlinkFallbackCopies ==
    \A a \in Calls : \A t \in a.targets :
        (/\ ~a.threw
         /\ ctx.mode = "symlink"
         /\ t \in symlinkFails /\ t \notin unwritable
         /\ a.dirsBefore[t] = "none")
        => /\ a.results[t] = "copied"
           /\ Success(a.results[t])
           /\ a.dirsAfter[t] = a.version

\* cursor refused the symlink and got a copy of v1
C12_Witness ==
    \E a \in Calls :
        /\ ~a.threw
        /\ ctx.mode = "symlink"
        /\ "cursor" \in symlinkFails
        /\ a.results["cursor"] = "copied"
        /\ a.dirsAfter["cursor"] = "v1"

\* C29: the defaults of the manifest (targetAgents, installMode) are written
\* only at the end of an install run of the project scope in which at least
\* one target succeeded: a global install never writes them, and a step that
\* does not write them, such as a run without a successful target, leaves
\* their stored value as it was.
C29_DefaultsOnlyAfterSuccess ==
    [][/\ defaultsSaved' => (pc' = "done" /\ ~ctx'.global /\ totalInstalled' > 0)
       /\ skillsJson'.defaults # skillsJson.defaults => defaultsSaved']_vars

\* a global install that installed to a target, beside a manifest whose
\* defaults were not written
C29_Witness ==
    /\ cmd = "install" /\ pc = "done"
    /\ ctx.global
    /\ totalInstalled > 0
    /\ skillsJson.exists
    /\ ~defaultsSaved
    /\ skillsJson.defaults = NoDefaults

(***************************************************************************)
(* The update check: CacheManager.getRemoteCommit and its caller           *)
(***************************************************************************)
MaxFetches == 2

\* the longest short reference, in tokens
MaxRefLen == 5

\* the longest delay of an answer of the npm registry, in seconds
MaxDelay == 4

\* whether the last segments of the ref path are the pattern, as
\* `git ls-remote <url> <pattern>` matches
TailMatch(refPath, pattern) ==
    /\ Len(pattern) <= Len(refPath)
    /\ SubSeq(refPath, Len(refPath) - Len(pattern) + 1, Len(refPath)) = pattern

\* the output of `git ls-remote <url> <ref>`: the lines commit, ref path
LsRemote(refs, ref) ==
    LET Keep(line) == TailMatch(line[2], ref)
    IN  SelectSeq(refs, Keep)

\* a query that answers with the first commit of the listing when the ref is
\* not in it
getRemoteCommitOrFirst(rem, ref) ==
    LET stdout == LsRemote(rem.refs, ref)
    IN  IF ~rem.up THEN ""
        ELSE IF stdout # <<>> THEN stdout[1][1]
        ELSE rem.refs[1][1]

\* CacheManager.getRemoteCommit(repoUrl, ref); a remote that does not answer
\* makes exec throw, which the catch turns into ''
getRemoteCommit(rem, ref) ==
    LET stdout  == LsRemote(rem.refs, ref)
        Named(line) == \/ line[2] = <<"refs", "heads">> \o ref
                       \/ line[2] = <<"refs", "tags">> \o ref
                       \/ line[2] = ref
        found   == SelectSeq(rem.refs, Named)
    IN  IF ~rem.up THEN ""
        ELSE IF stdout # <<>> THEN stdout[1][1]
        ELSE IF found # <<>> THEN found[1][1]
        ELSE ""

\* every check asks for an update
NeedsUpdateAlways(lockedCommit, remoteCommit) == TRUE

\* checkNeedsUpdate: the locked commit differs from the remote commit
NeedsUpdate(lockedCommit, remoteCommit) == lockedCommit # remoteCommit

Commits2 == {"c1", "c2"}

\* the ref list of the remote, in the order git prints it: the branch main
\* at the commit, then the tag v1 at the commit ("" for no tag)
RefList(main, v1) ==
    <<<<main, <<"refs", "heads", "main">>>>>>
        \o (IF v1 = "" THEN <<>> ELSE <<<<v1, <<"refs", "tags", "v1">>>>>>)

RefLists == {RefList(m, t) : m \in Commits2, t \in Commits2 \cup {""}}

\* the refs a lock entry can name: the branch, the tag
LockedRefs == {<<"main">>, <<"v1">>}

\* `reskill update` of the locked skill: the remote commit of the locked ref
\* is asked for; when it is the locked commit nothing is fetched, otherwise
\* the ref is fetched and the lock entry gets the fetched commit
Update ==
    /\ upFetches < MaxFetches
    /\ LET remoteCommit == getRemoteCommit(upRemote, upLock.ref)
           needs   == NeedsUpdate(upLock.commit, remoteCommit)
           fetched == needs /\ upRemote.up /\ LsRemote(upRemote.refs, upLock.ref) # <<>>
       IN  /\ upFetches' = IF needs THEN upFetches + 1 ELSE upFetches
           /\ upLock' = IF fetched
                        THEN [upLock EXCEPT !.commit =
                                 LsRemote(upRemote.refs, upLock.ref)[1][1]]
                        ELSE upLock
           /\ upReport' = [ref |-> upLock.ref, locked |-> upLock.commit,
                           remoteCommit |-> remoteCommit,
                           action |-> IF ~needs THEN "unchanged"
                                      ELSE IF fetched THEN "updated" ELSE "failed",
                           fetched |-> needs, fetchesBefore |-> upFetches]
    /\ UNCHANGED upRemote
    /\ UNCHANGED <<pathVars, cacheVars, regVars, batchVars, refVars, gitVars, notifyVars, authVars>>

\* somebody pushes to the remote: the branch moves, the tag is made, moved
\* or deleted
Push ==
    /\ \E refs \in RefLists :
          /\ refs # upRemote.refs
          /\ upRemote' = [upRemote EXCEPT !.refs = refs]
    /\ UNCHANGED <<upLock, upReport, upFetches>>
    /\ UNCHANGED <<pathVars, cacheVars, regVars, batchVars, refVars, gitVars, notifyVars, authVars>>

\* the remote stops or starts answering
Outage ==
    /\ upRemote' = [upRemote EXCEPT !.up = ~upRemote.up]
    /\ UNCHANGED <<upLock, upReport, upFetches>>
    /\ UNCHANGED <<pathVars, cacheVars, regVars, batchVars, refVars, gitVars, notifyVars, authVars>>

(***************************************************************************)
(* Specification SpecUpdate: update checks of one locked skill             *)
(***************************************************************************)
\* a skill was installed from the branch or the tag at c1; the lock has the
\* commit, or '' when the cache entry had no commit marker
InitUpdate ==
    /\ PathIdle
    /\ CacheIdle
    /\ RegistryIdle
    /\ BatchIdle
    /\ DispatchIdle
    /\ GitIdle
    /\ NotifyIdle
    /\ AuthIdle
    /\ upRemote = [up |-> TRUE, refs |-> RefList("c1", "c1")]
    /\ upLock \in [ref : LockedRefs, commit : {"c1", ""}]
    /\ upReport = NoReport
    /\ upFetches = 0

NextUpdate ==
    \/ Update
    \/ Push
    \/ Outage

SpecUpdate == InitUpdate /\ [][NextUpdate]_vars

\* C13: an update that finds the locked commit equal to the remote commit of
\* the locked ref fetches nothing, reports the skill unchanged and leaves
\* the lock entry as it is.
C13_EqualCommitSkipsFetch ==
    (upReport.action # "none" /\ upReport.locked = upReport.remoteCommit) =>
        /\ upReport.action = "unchanged"
        /\ ~upReport.fetched
        /\ upFetches = upReport.fetchesBefore
        /\ upLock = [ref |-> upReport.ref, commit |-> upReport.locked]

\* after an update to c2, the next check found c2 on the remote and skipped
C13_Witness ==
    /\ upReport.action = "unchanged"
    /\ upReport.remoteCommit = "c2"
    /\ upReport.locked = "c2"
    /\ upFetches = 1

\* the stages passed are the first n stages of the order
IsStagePrefix(stages) ==
    \E n \in 0..Len(StageOrder) : stages = SubSeq(StageOrder, 1, n)

Undetermined(rem, r) == ~rem.up \/ LsRemote(rem.refs, r) = <<>>

C18_OneReferenceAtATime ==
    /\ Cardinality(inFlight) <= 1
    /\ inFlight # {} => (pc = "loop" /\ inFlight = {Len(attempts) + 1})
    /\ pc = "done" => inFlight = {}

\* the second entry of the manifest is being installed after the first one
\* has finished
C18_Witness ==
    /\ cmd = "reinstall" /\ pc = "loop"
    /\ Len(attempts) = 1
    /\ inFlight = {2}

(***************************************************************************)
(* The source of a reference: RegistryResolver.isRegistryRef,              *)
(* HttpResolver.isHttpUrl and the dispatch of SkillManager.install.        *)
(*                                                                         *)
(* A reference is a sequence of tokens: a token is one punctuation         *)
(* character or a whole run of letters and digits ("git", "https", "a").   *)
(* No token of the alphabet is part of another one, so startsWith,         *)
(* endsWith, includes and split on tokens are those on characters.         *)
(***************************************************************************)

\* String.prototype.startsWith
StartsWith(s, p) == Len(p) <= Len(s) /\ SubSeq(s, 1, Len(p)) = p

\* String.prototype.endsWith
EndsWith(s, p) == Len(p) <= Len(s) /\ SubSeq(s, Len(s) - Len(p) + 1, Len(s)) = p

\* String.prototype.includes
Includes(s, p) ==
    \E i \in 1..(Len(s) - Len(p) + 1) : SubSeq(s, i, i + Len(p) - 1) = p

\* the runs of [a-zA-Z0-9] that occur in references
AlnumTokens == {"a", "git", "http", "https", "oss", "s3", "tree", "blob", "raw", "tgz"}

\* [a-zA-Z0-9._-]
NameChars == AlnumTokens \cup {".", "_", "-"}

\* [a-zA-Z0-9.-]
ShorthandChars == AlnumTokens \cup {".", "-"}

\* ^[a-zA-Z0-9._-]+$
IsName(s) == Len(s) > 0 /\ \A i \in 1..Len(s) : s[i] \in NameChars

\* a pattern that lets '/' into the name: ^[a-zA-Z0-9._/-]+(@[a-zA-Z0-9._-]+)?$
MatchesNameOrPathPattern(s) ==
    LET IsPath(t) == Len(t) > 0 /\ \A i \in 1..Len(t) : t[i] \in NameChars \cup {"/"}
    IN  \/ IsPath(s)
        \/ \E i \in 2..(Len(s) - 1) :
              /\ s[i] = "@"
              /\ IsPath(SubSeq(s, 1, i - 1))
              /\ IsName(SubSeq(s, i + 1, Len(s)))

\* namePattern: ^[a-zA-Z0-9._-]+(@[a-zA-Z0-9._-]+)?$
MatchesNamePattern(s) ==
    \/ IsName(s)
    \/ \E i \in 2..(Len(s) - 1) :
          /\ s[i] = "@"
          /\ IsName(SubSeq(s, 1, i - 1))
          /\ IsName(SubSeq(s, i + 1, Len(s)))

\* scopeNamePattern: ^@[a-zA-Z0-9._-]+\/[a-zA-Z0-9._-]+(@[a-zA-Z0-9._-]+)?$
MatchesScopeNamePattern(s) ==
    /\ StartsWith(s, <<"@">>)
    /\ \E j \in 3..(Len(s) - 1) :
          /\ s[j] = "/"
          /\ IsName(SubSeq(s, 2, j - 1))
          /\ MatchesNamePattern(SubSeq(s, j + 1, Len(s)))

\* /^[a-zA-Z0-9.-]+:[^@]/.test(ref): the registry shorthand (github:, gitlab:)
MatchesShorthand(s) ==
    \E i \in 2..(Len(s) - 1) :
       /\ s[i] = ":"
       /\ \A k \in 1..(i - 1) : s[k] \in ShorthandChars
       /\ s[i + 1] # "@"

\* the protocols of an archive URL
ArchiveSchemes == {"http", "https", "oss", "s3"}

\* whether s starts with http://, https://, oss:// or s3://
HasArchiveScheme(s) == \E p \in ArchiveSchemes : StartsWith(s, <<p, ":", "/", "/">>)

\* RegistryResolver.isRegistryRef
isRegistryRef(ref) ==
    IF StartsWith(ref, <<"git", "@">>) \/ StartsWith(ref, <<"git", ":", "/", "/">>)
    THEN FALSE
    ELSE IF Includes(ref, <<".", "git">>) THEN FALSE
    ELSE IF HasArchiveScheme(ref) THEN FALSE
    ELSE IF MatchesShorthand(ref) THEN FALSE
    ELSE IF StartsWith(ref, <<"@">>) /\ Includes(ref, <<"/">>)
    THEN MatchesScopeNamePattern(ref)
    ELSE MatchesNamePattern(ref)

\* ref.split('@')[0]: what stands before the first '@'
BeforeFirstAt(ref) ==
    IF IndexOf(ref, "@") = 0 THEN ref ELSE SubSeq(ref, 1, IndexOf(ref, "@") - 1)

\* /\/(tree|blob|raw)\//.test(urlPart)
HasWebUrlSegment(s) == \E w \in {"tree", "blob", "raw"} : Includes(s, <<"/", w, "/">>)

\* HttpResolver.isHttpUrl
isHttpUrl(ref) ==
    LET urlPart == BeforeFirstAt(ref)
    IN  IF EndsWith(urlPart, <<".", "git">>) THEN FALSE
        ELSE IF HasWebUrlSegment(urlPart) THEN FALSE
        ELSE HasArchiveScheme(urlPart)

\* SkillManager.install: Registry > HTTP > Git
SourceOf(ref) ==
    IF isRegistryRef(ref) THEN "registry"
    ELSE IF isHttpUrl(ref) THEN "http"
    ELSE "git"

\* the tokens of the short references
RefChars == {"a", ".", "_", "/", "@", ":", "git"}

\* every reference of at most MaxRefLen of these tokens
ShortRefs == SeqsUpTo(RefChars, MaxRefLen)

\* scheme://[user@]host[/path][.git|.tgz][@version], and the SSH form
UrlRefs ==
    {scheme \o user \o <<"a">> \o urlPath \o ext \o version :
        scheme \in {<<"https", ":", "/", "/">>, <<"oss", ":", "/", "/">>},
        user \in {<<>>, <<"a", "@">>},
        urlPath \in {<<>>, <<"/", "a">>, <<"/", "tree", "/", "a">>, <<"/", "raw", "/", "a">>},
        ext \in {<<>>, <<".", "git">>, <<".", "tgz">>},
        version \in {<<>>, <<"@", "a">>}}
    \cup {<<"git", "@", "a", ":", "a", "/", "a", ".", "git">> \o version :
             version \in {<<>>, <<"@", "a">>}}

DispatchRefs == ShortRefs \cup UrlRefs

InitDispatch ==
    /\ dRef \in DispatchRefs
    /\ dSource = "none"
    /\ PathIdle
    /\ CacheIdle
    /\ RegistryIdle
    /\ BatchIdle
    /\ UpdateIdle
    /\ GitIdle
    /\ NotifyIdle
    /\ AuthIdle

\* SkillManager.install(ref) chooses the installer of the reference
Dispatch ==
    /\ dSource = "none"
    /\ dSource' = SourceOf(dRef)
    /\ UNCHANGED dRef
    /\ UNCHANGED <<pathVars, cacheVars, regVars, batchVars, updVars, gitVars, notifyVars, authVars>>

NextDispatch == Dispatch

SpecDispatch == InitDispatch /\ [][NextDispatch]_vars

\* C15: a reference that contains a '/' and does not start with '@'
\* (owner/repo, owner/repo@version) is rejected by isRegistryRef and is never
\* installed from the registry; unless it is a URL with an archive protocol
\* it is installed from Git.
C15_SlashRefNeverRegistry ==
    (dSource # "none" /\ Includes(dRef, <<"/">>) /\ ~StartsWith(dRef, <<"@">>))
        => /\ ~isRegistryRef(dRef)
           /\ dSource # "registry"
           /\ ~HasArchiveScheme(dRef) => dSource = "git"

\* owner/repo@version, installed from Git
C15_Witness ==
    /\ dRef = <<"a", "/", "a", "@", "a">>
    /\ dSource = "git"

\* the URL part of a reference: the reference without its trailing @version
\* (the last '@' when only version characters follow it)
WithoutTrailingVersion(ref) ==
    LET ats == {i \in 1..Len(ref) : ref[i] = "@"}
        lastAt == CHOOSE i \in ats : \A j \in ats : j <= i
    IN  IF ats # {} /\ lastAt > 1 /\ IsName(SubSeq(ref, lastAt + 1, Len(ref)))
        THEN SubSeq(ref, 1, lastAt - 1)
        ELSE ref

\* C16: a reference whose URL part, the trailing @version stripped, ends in
\* .git or contains /tree/, /blob/ or /raw/ is never installed as an archive
\* (HTTP/OSS/S3): it is installed from Git.
C16_GitUrlNeverArchive ==
    (/\ dSource # "none"
     /\ \/ EndsWith(WithoutTrailingVersion(dRef), <<".", "git">>)
        \/ HasWebUrlSegment(WithoutTrailingVersion(dRef)))
        => dSource = "git"

(***************************************************************************)
(* CacheManager.copyTo: from a cache entry into a destination              *)
(***************************************************************************)
\* DEFAULT_EXCLUDE_FILES of the Installer
DEFAULT_EXCLUDE_FILES == {"README.md", "metadata.json", ".reskill-commit"}

\* the directory a skill is copied to
DestPath == <<"project", ".skills", "tools">>

\* CacheManager.copyTo(parsed, version, destPath); n is the number of files
\* copied before a copy error, the length of the list when there is none
copyToRun(F, parsed, version, destPath, n) ==
    LET cached == get(F, parsed, version)
        F1 == Remove(F, destPath)
        list == CopyList(F1, cached.path, DEFAULT_EXCLUDE_FILES)
        copied == {list[i] : i \in 1..Len(list)}
    IN  IF ~cached.found THEN Outcome(F, FALSE, "not-cached", {}, "")
        ELSE Outcome(CopyDir(F1, cached.path, destPath, DEFAULT_EXCLUDE_FILES, n),
                     n >= Len(list), IF n >= Len(list) THEN "" ELSE "copy", copied,
                     cached.commit)

\* the numbers of files after which copyTo can stop, the last one being the
\* whole copy
CopyToStops(F, parsed, version) ==
    0..Cardinality(copyToRun(F, parsed, version, DestPath, 0).fetched)

\* a call of copyTo
CopyTo ==
    /\ nOps < MaxOps
    /\ \E key \in GitKeys \cup HttpKeys :
          \E n \in CopyToStops(FS, key[1], key[2]) :
              LET out == copyToRun(FS, key[1], key[2], DestPath, n)
              IN  /\ fsDirs' = out.fs.dirs
                  /\ fsFiles' = out.fs.files
                  /\ last' = Done("copyTo", key[1], key[2], out,
                                  RelFilesUnder(FS, DestPath))
    /\ nOps' = nOps + 1
    /\ UNCHANGED <<pathVars, regVars, batchVars, sideVars>>

\* a project whose destination directory was filled by hand
InitCopy ==
    /\ PathIdle
    /\ RegistryIdle
    /\ BatchIdle
    /\ SideIdle
    /\ fsDirs = Prefixes(DestPath) \cup {Append(DestPath, "_private")}
    /\ fsFiles = [f \in {Append(DestPath, "README.md"), DestPath \o <<"_private", "x.md">>}
                     |-> "by hand"]
    /\ last = NoOp
    /\ nOps = 0

NextCopy ==
    \/ Cache
    \/ CacheFromHttp
    \/ CopyTo

SpecCopy == InitCopy /\ [][NextCopy]_vars

\* C17: after a copy from a cache entry to a destination, nothing in the
\* destination, at any depth, has a name of the exclude list (README.md,
\* metadata.json, .reskill-commit) or a name that starts with '_'; this holds
\* also for what a copy that was stopped by an error has left.
C17_NoExcludedNameInDestination ==
    (last.op = "copyTo" /\ last.error # "not-cached") =>
        /\ \A r \in RelFilesUnder(FS, DestPath) :
              \A i \in 1..Len(r) :
                  r[i] \notin DEFAULT_EXCLUDE_FILES /\ ~HasExcludePrefix(r[i])
        /\ \A d \in fsDirs :
              IsPrefix(DestPath, d) =>
                  \A i \in (Len(DestPath) + 1)..Len(d) :
                      d[i] \notin DEFAULT_EXCLUDE_FILES /\ ~HasExcludePrefix(d[i])

\* a complete copy of the archive entry, which holds README.md,
\* metadata.json, _notes.md, _private/ and a/README.md, over a destination
\* that had a README.md
C17_Witness ==
    /\ last.op = "copyTo" /\ last.ok
    /\ last.parsed = HttpRef
    /\ <<"README.md">> \in last.before
    /\ {<<"README.md">>, <<"metadata.json">>, <<"_notes.md">>, <<"a", "README.md">>,
        <<"_private", "x.md">>, <<".reskill-commit">>}
          \subseteq RelFilesUnder(FS, getSkillCachePath(HttpRef, "v1"))
    /\ RelFilesUnder(FS, DestPath) =
          {<<"SKILL.md">>, <<"a", "SKILL.md">>, <<"old.md">>, <<".reskill-source">>}

(***************************************************************************)
(* Remote Git subprocesses: clone and ref listing of utils/git, and        *)
(* CacheManager.getRemoteCommit                                            *)
(***************************************************************************)
GitSettings == [acceptNew : BOOLEAN, batchMode : BOOLEAN, noPrompt : BOOLEAN]

\* what the remote asks for: nothing, the confirmation of a host key not seen
\* before, an SSH passphrase or password, an HTTPS user name and password
RemoteAsks == {"ok", "new-host-key", "ssh-password", "https-password"}

\* the environment the Git commands of utils/git run in: process.env with
\* StrictHostKeyChecking=accept-new, BatchMode=yes and GIT_TERMINAL_PROMPT=0
FailFastEnv(env) == [acceptNew |-> TRUE, batchMode |-> TRUE, noPrompt |-> TRUE]

\* the environment of exec(command, {encoding}): process.env as it is
InheritedEnv(env) == env

\* a remote Git subprocess with these settings: it ends ("done", "failed")
\* or waits for an answer on the terminal ("blocked")
RunGit(settings, asks) ==
    IF asks = "new-host-key"
    THEN IF settings.acceptNew THEN "done"
         ELSE IF settings.batchMode THEN "failed" ELSE "blocked"
    ELSE IF asks = "ssh-password"
    THEN IF settings.batchMode THEN "failed" ELSE "blocked"
    ELSE IF asks = "https-password"
    THEN IF settings.noPrompt THEN "failed" ELSE "blocked"
    ELSE "done"

\* the record of a subprocess
GitCall(kind, settings) ==
    [kind |-> kind, settings |-> settings, outcome |-> RunGit(settings, gRemote)]

\* the tool runs as long as no subprocess waits for input
Running == gLast.outcome # "blocked"

\* clone(repoUrl, dest, {depth, branch}) of utils/git
Clone ==
    /\ Running
    /\ gLast' = GitCall("clone", FailFastEnv(gEnv))
    /\ UNCHANGED <<gEnv, gRemote>>
    /\ UNCHANGED <<pathVars, cacheVars, regVars, batchVars, updVars, refVars, notifyVars, authVars>>

\* the listing of the remote tags and branches by utils/git
ListRemoteRefs ==
    /\ Running
    /\ gLast' = GitCall("ls-remote", FailFastEnv(gEnv))
    /\ UNCHANGED <<gEnv, gRemote>>
    /\ UNCHANGED <<pathVars, cacheVars, regVars, batchVars, updVars, refVars, notifyVars, authVars>>

\* CacheManager.getRemoteCommit: execAsync(`git ls-remote ...`, {encoding})
GetRemoteCommit ==
    /\ Running
    /\ gLast' = GitCall("remote-commit", InheritedEnv(gEnv))
    /\ UNCHANGED <<gEnv, gRemote>>
    /\ UNCHANGED <<pathVars, cacheVars, regVars, batchVars, updVars, refVars, notifyVars, authVars>>

InitGit ==
    /\ PathIdle
    /\ CacheIdle
    /\ RegistryIdle
    /\ BatchIdle
    /\ UpdateIdle
    /\ DispatchIdle
    /\ NotifyIdle
    /\ AuthIdle
    /\ gEnv \in GitSettings
    /\ gRemote \in RemoteAsks
    /\ gLast = NoGitCall

NextGit ==
    \/ Clone
    \/ ListRemoteRefs
    \/ GetRemoteCommit

SpecGit == InitGit /\ [][NextGit]_vars

\* C19: every remote Git subprocess of the tool (clone, ref listing, remote
\* commit query) has all three fail-fast settings, and none waits for input.
C19_RemoteGitNeverWaits ==
    gLast.kind # "none" =>
        /\ gLast.settings.acceptNew
        /\ gLast.settings.batchMode
        /\ gLast.settings.noPrompt
        /\ gLast.outcome # "blocked"

(***************************************************************************)
(* The update notifier: checkForUpdate and notifyUpdate                    *)
(***************************************************************************)
\* the timeouts checkForUpdate is called with: a short one and the default
Timeouts == {1, DefaultTimeout}

Delays == 0..MaxDelay

\* what response.json() delivers: a newer latest version, the current
\* version, no dist-tags.latest, or text that is not JSON
Bodies == {"newer", "same", "no-latest", "invalid-json"}

\* How the npm registry answers: never; a network error; a response that is
\* not OK; an OK response whose body arrives after a delay or never (-1).
Servers ==
    {NoAnswer}
    \cup {[fetch |-> "network-error", at |-> t, ok |-> FALSE, bodyAfter |-> -1,
           body |-> "none"] : t \in Delays}
    \cup {[fetch |-> "response", at |-> t, ok |-> FALSE, bodyAfter |-> -1,
           body |-> "none"] : t \in Delays}
    \cup {[fetch |-> "response", at |-> t, ok |-> TRUE, bodyAfter |-> d, body |-> b] :
             t \in Delays, d \in Delays \cup {-1}, b \in Bodies}

\* the result for a body: latest missing or an exception give null,
\* otherwise hasUpdate is semver.gt(latest, currentVersion)
ResultOf(body) ==
    IF body \in {"no-latest", "invalid-json"} THEN "null"
    ELSE IF body = "newer" THEN "update"
    ELSE "current"

\* checkForUpdate returns r; notifyUpdate logs the message when
\* result?.hasUpdate
Return(r) ==
    /\ nPhase' = "returned"
    /\ nResult' = r
    /\ nMessage' = (r = "update")

\* checkForUpdate is called: the abort timer is set and fetch begins
CheckForUpdate ==
    /\ nPhase = "idle"
    /\ nPhase' = "fetching"
    /\ nTimer' = "armed"
    /\ UNCHANGED <<nCall, nClock, nResult, nMessage>>
    /\ UNCHANGED <<pathVars, cacheVars, regVars, batchVars, updVars, refVars, gitVars, authVars>>

\* fetch settles at this second
FetchDue ==
    nPhase = "fetching" /\ nCall.server.fetch # "never" /\ nCall.server.at = nClock

\* the abort timer runs out at this second
TimerDue == nPhase = "fetching" /\ nTimer = "armed" /\ nCall.timeout = nClock

\* response.json() settles at this second
BodyDue ==
    /\ nPhase = "reading"
    /\ nCall.server.bodyAfter # -1
    /\ nCall.server.at + nCall.server.bodyAfter = nClock

\* a second passes while checkForUpdate waits
Tick ==
    /\ nPhase \in {"fetching", "reading"}
    /\ ~FetchDue /\ ~TimerDue /\ ~BodyDue
    /\ nClock < 2 * MaxDelay + 1
    /\ nClock' = nClock + 1
    /\ UNCHANGED <<nCall, nPhase, nTimer, nResult, nMessage>>
    /\ UNCHANGED <<pathVars, cacheVars, regVars, batchVars, updVars, refVars, gitVars, authVars>>

\* fetch rejects (the catch returns null), or resolves: clearTimeout, null
\* when the response is not OK, otherwise response.json() is awaited
FetchSettles ==
    /\ FetchDue
    /\ IF nCall.server.fetch = "network-error"
       THEN Return("null") /\ UNCHANGED nTimer
       ELSE /\ nTimer' = "cleared"
            /\ IF ~nCall.server.ok
               THEN Return("null")
               ELSE nPhase' = "reading" /\ UNCHANGED <<nResult, nMessage>>
    /\ UNCHANGED <<nCall, nClock>>
    /\ UNCHANGED <<pathVars, cacheVars, regVars, batchVars, updVars, refVars, gitVars, authVars>>

\* the timer calls controller.abort(): fetch rejects and the catch returns
\* null
TimerFires ==
    /\ TimerDue
    /\ nTimer' = "fired"
    /\ Return("null")
    /\ UNCHANGED <<nCall, nClock>>
    /\ UNCHANGED <<pathVars, cacheVars, regVars, batchVars, updVars, refVars, gitVars, authVars>>

\* response.json() resolves or rejects
BodySettles ==
    /\ BodyDue
    /\ Return(ResultOf(nCall.server.body))
    /\ UNCHANGED <<nCall, nClock, nTimer>>
    /\ UNCHANGED <<pathVars, cacheVars, regVars, batchVars, updVars, refVars, gitVars, authVars>>

InitNotify ==
    /\ PathIdle
    /\ CacheIdle
    /\ RegistryIdle
    /\ BatchIdle
    /\ UpdateIdle
    /\ DispatchIdle
    /\ GitIdle
    /\ nCall \in [timeout : Timeouts, server : Servers]
    /\ nClock = 0
    /\ nPhase = "idle"
    /\ nTimer = "off"
    /\ nResult = "none"
    /\ nMessage = FALSE
    /\ AuthIdle

NextNotify ==
    \/ CheckForUpdate
    \/ Tick
    \/ FetchSettles
    \/ TimerFires
    \/ BodySettles

SpecNotify == InitNotify /\ [][NextNotify]_vars

\* C20: checkForUpdate is never still running after its timeout, it returns
\* within the timeout, and it returns null after a timeout, a network
\* failure, a response that is not OK or a body without a latest version.
C20_CheckEndsWithinTimeout ==
    /\ nPhase \in {"fetching", "reading"} => nClock <= nCall.timeout
    /\ nPhase = "returned" =>
          /\ nClock <= nCall.timeout
          /\ (\/ nTimer = "fired"
              \/ nCall.server.fetch = "network-error"
              \/ ~nCall.server.ok
              \/ nCall.server.body \in {"no-latest", "invalid-json"})
                => (nResult = "null" /\ ~nMessage)

\* C26: every reference that isRegistryRef accepts, and that is therefore
\* installed from the registry, is parsed by parseSkillIdentifier without
\* the invalid-skill-identifier error.
C26_RegistryRefsParse ==
    (dSource # "none" /\ isRegistryRef(dRef)) =>
        (dSource = "registry" /\ parseSkillIdentifier(dRef).valid)

(***************************************************************************)
(* CacheManager.clearSkill                                                 *)
(***************************************************************************)
\* a reference whose subPath climbs out of the repository directory
ClimbingRef == GitRef(<<"..", "..", "..">>)

\* the references and versions clearSkill is called with
ClearKeys == GitKeys \cup HttpKeys \cup {<<ClimbingRef, "..">>}

\* a file of the user next to the cache root
UserFile == <<"home", "notes.txt">>

\* the directory clearSkill removes: the cache path of the version, or,
\* without a version, <cacheDir>/<registry>/<owner>/<repo>
ClearedPath(parsed, version) ==
    IF version # "" THEN getSkillCachePath(parsed, version)
    ELSE PathJoin(<<CacheDir, <<parsed.registry>>, <<parsed.owner>>, <<parsed.repo>>>>)

\* CacheManager.clearSkill(parsed, version); version "" is no version
clearSkillRun(F, parsed, version) == Remove(F, ClearedPath(parsed, version))

\* a call of clearSkill
ClearSkill ==
    /\ nOps < MaxOps
    /\ \E key \in ClearKeys, withVersion \in BOOLEAN :
          LET version == IF withVersion THEN key[2] ELSE ""
              F2 == clearSkillRun(FS, key[1], version)
          IN  /\ fsDirs' = F2.dirs
              /\ fsFiles' = F2.files
              /\ last' = Done("clearSkill", key[1], version,
                              Outcome(F2, TRUE, "", {}, ""), {})
    /\ nOps' = nOps + 1
    /\ UNCHANGED <<pathVars, regVars, batchVars, sideVars>>

\* an empty cache and a file of the user in the home directory
InitClear ==
    /\ PathIdle
    /\ RegistryIdle
    /\ BatchIdle
    /\ SideIdle
    /\ fsDirs = {<<"home">>}
    /\ fsFiles = [f \in {UserFile} |-> "by hand"]
    /\ last = NoOp
    /\ nOps = 0

NextClear ==
    \/ Cache
    \/ CacheFromHttp
    \/ ClearSkill

SpecClear == InitClear /\ [][NextClear]_vars

\* C25: the cache path of every reference and version lies inside the cache
\* root, so no cache operation creates or deletes anything outside it: the
\* path an operation worked on is below the root and the user's file next to
\* the root is still there.
C25_NothingOutsideCacheRoot ==
    /\ last.op \in {"cache", "cacheFromHttp"}
          => IsPrefix(CacheDir, getSkillCachePath(last.parsed, last.version))
    /\ last.op = "clearSkill" => IsPrefix(CacheDir, ClearedPath(last.parsed, last.version))
    /\ UserFile \in DOMAIN fsFiles
    /\ fsFiles[UserFile] = "by hand"

\* C27: clearSkill for one descriptor, with or without a version, leaves the
\* cache entries of every other descriptor as they were, the other sub-paths
\* of the same repository included.
C27_ClearSkillOnlyItsOwn ==
    [][(nOps' = nOps + 1 /\ last'.op = "clearSkill") =>
          \A k \in GitKeys \cup HttpKeys :
              k[1] # last'.parsed => EntryOf(FSNext, k) = EntryOf(FS, k)]_vars

(***************************************************************************)
(* AuthManager and the logout command                                      *)
(***************************************************************************)
\* the token a login stores
LoginToken == "tok"

\* the token in the environment of the tool
EnvToken == "envtok"

\* what JavaScript takes for false among the values of a token
Falsy(token) == token \in {Undefined, ""}

\* AuthManager.getToken; the commands pass the registry they resolved
getToken(env, config, registry) ==
    IF ~Falsy(env) THEN env
    ELSE IF config.file # "registries" THEN Undefined
    ELSE config.registries[registry]

\* AuthManager.hasToken
hasToken(env, config, registry) == getToken(env, config, registry) # Undefined

\* AuthManager.setToken, which writes the file
setToken(config, token, registry) ==
    [file |-> "registries", registries |-> [config.registries EXCEPT ![registry] = token]]

\* AuthManager.removeToken: nothing is written when the file has no registries
removeToken(config, registry) ==
    IF config.file # "registries" THEN config
    ELSE [config EXCEPT !.registries[registry] = Undefined]

\* a login stores the token of the registry
SetToken ==
    /\ \E r \in AuthRegistries :
          /\ aConfig' = setToken(aConfig, LoginToken, r)
          /\ aReport' = [aReport EXCEPT ![r] = "logged in"]
    /\ UNCHANGED aEnv
    /\ UNCHANGED <<pathVars, cacheVars, regVars, batchVars, updVars, refVars, gitVars,
                   notifyVars>>

\* logoutAction for the registry that resolveRegistry returned; the email it
\* reads is only printed
LogoutAction ==
    /\ \E registry \in AuthRegistries :
          LET token == getToken(aEnv, aConfig, registry)
          IN  IF Falsy(token)
              THEN /\ aReport' = [aReport EXCEPT ![registry] = "not logged in"]
                   /\ UNCHANGED aConfig
              ELSE /\ aConfig' = removeToken(aConfig, registry)
                   /\ aReport' = [aReport EXCEPT ![registry] = "logged out"]
    /\ UNCHANGED aEnv
    /\ UNCHANGED <<pathVars, cacheVars, regVars, batchVars, updVars, refVars, gitVars,
                   notifyVars>>

(***************************************************************************)
(* Specification SpecAuth: logins and logouts of one user                  *)
(***************************************************************************)
\* the files the user starts with
AuthConfigs ==
    {NoConfig, [NoConfig EXCEPT !.file = "no registries"]}
    \cup {[file |-> "registries", registries |-> f] :
             f \in [AuthRegistries -> {Undefined, "", LoginToken}]}

InitAuth ==
    /\ PathIdle
    /\ CacheIdle
    /\ RegistryIdle
    /\ BatchIdle
    /\ UpdateIdle
    /\ DispatchIdle
    /\ GitIdle
    /\ NotifyIdle
    /\ aEnv \in {"", EnvToken}
    /\ aConfig \in AuthConfigs
    /\ aReport = [r \in AuthRegistries |-> "none"]

NextAuth == SetToken \/ LogoutAction

SpecAuth == InitAuth /\ [][NextAuth]_vars

\* C30: a registry whose last login or logout was a logout that reported
\* success has no token: getToken returns undefined and hasToken false for
\* it, until a login for it.
C30_NoTokenAfterLogout ==
    \A r \in AuthRegistries :
        aReport[r] = "logged out" =>
            /\ getToken(aEnv, aConfig, r) = Undefined
            /\ ~hasToken(aEnv, aConfig, r)

====
